---- MODULE Spec2Model ----
(***************************************************************************)
(* The monitoring supervisor of the USB installer node                     *)
(* (src/src/monitoring.rs): the registry of monitored services, the        *)
(* periodic health-check loop with its failure threshold and restart       *)
(* policy, the alert channel with its drain task, the metrics collector,    *)
(* and start/stop; the tunnel manager with its reconnect loop               *)
(* (src/src/network/tunnel.rs) and the DHCP client with its bounded retry   *)
(* (src/src/network/dhcp.rs).                                               *)
(***************************************************************************)
EXTENDS Integers, Sequences, FiniteSets, TLC

\* ------------------------------------------------------------------ bounds
\* Number of ticks of the check loop that are explored.
MaxTicks == 3
\* Number of register_service() calls that are explored.
MaxRegs == 2
\* Capacity of the alert channel (mpsc::channel(1000) in the source, scaled).
AlertChannelCap == 2
\* Largest configured max_failures that is explored.
MaxThreshold == 3
\* Number of checks of one record that are explored field by field.
MaxChecks == 4
\* Largest TunnelStatus.error_count that is explored.
MaxTunnelErrors == 8
\* Number of TunnelManager start() and stop() calls that are explored.
MaxTunnelCalls == 3
\* Number of DhcpClient request_lease() calls that are explored.
MaxLeaseCalls == 4
\* Number of turns of the metrics collector that are explored.
MaxSnapshots == 2
\* Number of VncServer start() and stop() calls that are explored.
MaxVncCalls == 3
\* Number of lifecycle operations on the managers that are explored.
MaxAdapterOps == 4

\* The names of the services that may be registered.
Names == {"net", "remote"}

VARIABLES
    config,        \* MonitoringConfig: max_failures, auto_restart
    services,      \* keys of Monitor.services
    health_status, \* Monitor.health_status: name -> ServiceHealth
    loop,          \* position of the spawned check loop
    todo,          \* services the iteration of the current scan has not visited
    restartFor,    \* the service whose restart the loop is about to run
    shutdown_tx,   \* Monitor.shutdown_tx is Some
    shutdownMsg,   \* a () is waiting in the shutdown channel
    alertq,        \* alerts in the mpsc channel
    alerts,        \* Monitor.alerts, the log
    alertSeq,      \* number of alerts created so far (stands for the uuid)
    regPending,    \* register_service between its two inserts: the name
    regQueued,     \* that register_service waits in the queue of the
                   \* health_status lock, which a scan holds or held
    ticks,         \* ticks begun so far
    \* history (not program state)
    tickSnapshot,  \* services registered when the current tick began
    checked,       \* services whose health_check() was called in this tick
    hist,          \* name -> since the service was put into the registry: how
                   \* many ticks called its health_check() and got Ok (ok) or
                   \* Err (fail), how many passed it over (skip), and how many
                   \* of the calls were made between the two inserts of its
                   \* registration (lost)
    restartCalls,  \* name -> number of restart() calls made on the service
    restartFailed, \* the restart() call of the tick that has just ended
                   \* returned Err
    regs           \* number of register_service() calls

VARIABLES
    \* TunnelManager
    tunnel_shutdown, \* TunnelManager.shutdown
    tunnel_process,  \* TunnelManager.process: "none", or the child "alive" or "dead"
    tunnel_status,   \* TunnelStatus: state, error_count
    monitors,        \* the spawned monitor_process tasks, in spawning order:
                     \* position in the loop (pc), the local backoff, and
                     \* (history) the failed respawns since its last success
    tunnelStarted,   \* (history) the last start()/stop() was a start() that
                     \* returned Ok
    tunnelCalls      \* (history) number of start() and stop() calls

VARIABLES
    \* DhcpClient
    dhcp_state,      \* DhcpClient.state
    current_lease,   \* DhcpClient.current_lease: NoLease, or the lease, named by
                     \* the call and the attempt that obtained it
    retry_count,     \* DhcpClient.retry_count
    dhcp_pc,         \* position of the caller inside request_lease
    attempts,        \* (history) of the current or last request_lease: the
                     \* attempt_dhcp_request() calls made, the seconds of
                     \* backoff slept, and what the call returned
    leaseCalls       \* (history) number of request_lease() calls

VARIABLES
    \* One ServiceHealth record, written field by field under the lock
    status_lock,     \* the health_status RwLock: "free" or held for "write"
    health,          \* the record: healthy, error_count, restart_count
    pass_pc,         \* position of check_all_services in its writes to the record
    committed,       \* (history) the record as it was when the processing of
                     \* the last check ended
    observed,        \* the record the last status query returned (got) and
                     \* (history) the committed record at that moment
    checksDone       \* (history) number of checks processed

VARIABLES
    \* metrics collector
    metrics,         \* Monitor.metrics: the stored samples, oldest first
    snapshots,       \* (history) number of turns of the collector loop
    last_snapshot    \* (history) the samples built by the latest turn

VARIABLES
    \* VncServer
    vnc_children,      \* the x11vnc processes spawned so far, in spawning order:
                       \* "alive", "exited" or "killed"
    vnc_process,       \* VncServer.process: 0 for None, or the child it holds
    vnc_restart_count, \* VncServer.restart_count
    vnc_monitors,      \* the spawned monitor() tasks: position (pc), the child
                       \* taken out of `process`, and whether abort() was called
    vnc_handle,        \* VncServer.monitor_handle: 0 for None, or the task
    vnc_call,          \* position of the caller inside start()
    vncCalls,          \* (history) number of start() and stop() calls
    vnc_respawns,      \* (history) processes spawned by monitor() tasks
    vncStopped         \* (history) stop() returned Ok and no start() since

VARIABLES
    \* the managers behind the adapters
    manager_lock,      \* AppState.network_manager's RwLock: "free" or the task
                       \* that holds the write guard
    network_ops,       \* per task: the NetworkManager operation it runs and
                       \* its position in it
    network_state,     \* NetworkManager.state
    disk_ops,          \* per task: the DiskManager operation it runs
    disk_state,        \* DiskManager.state
    adapterOps         \* (history) number of operations begun

monitorVars == <<config, services, health_status, loop, todo, restartFor, shutdown_tx,
          shutdownMsg, alertq, alerts, alertSeq, regPending, regQueued,
          ticks, tickSnapshot, checked, hist, restartCalls, restartFailed,
          regs>>

tunnelVars == <<tunnel_shutdown, tunnel_process, tunnel_status, monitors,
                tunnelStarted, tunnelCalls>>

dhcpVars == <<dhcp_state, current_lease, retry_count, dhcp_pc, attempts,
              leaseCalls>>

recordVars == <<status_lock, health, pass_pc, committed, observed, checksDone>>

metricsVars == <<metrics, snapshots, last_snapshot>>

vncVars == <<vnc_children, vnc_process, vnc_restart_count, vnc_monitors,
             vnc_handle, vnc_call, vncCalls, vnc_respawns, vncStopped>>

adapterVars == <<manager_lock, network_ops, network_state, disk_ops,
                 disk_state, adapterOps>>

vars == <<monitorVars, tunnelVars, dhcpVars, recordVars, metricsVars, vncVars,
          adapterVars>>

\* What the actions of the Monitor leave alone.
notMonitor == <<tunnelVars, dhcpVars, recordVars, metricsVars, vncVars,
    adapterVars>>

\* What the field-by-field writes to one record leave alone.
notRecord == <<monitorVars, tunnelVars, dhcpVars, metricsVars, vncVars,
    adapterVars>>

\* What the TunnelManager leaves alone.
notTunnel == <<monitorVars, dhcpVars, recordVars, metricsVars, vncVars,
    adapterVars>>

\* What the DhcpClient leaves alone.
notDhcp == <<monitorVars, tunnelVars, recordVars, metricsVars, vncVars,
    adapterVars>>

\* What the metrics collector leaves alone.
notMetrics == <<monitorVars, tunnelVars, dhcpVars, recordVars, vncVars,
    adapterVars>>

\* What the VncServer leaves alone.
notVnc == <<monitorVars, tunnelVars, dhcpVars, recordVars, metricsVars,
    adapterVars>>

\* What the operations on the managers leave alone.
notAdapter == <<monitorVars, tunnelVars, dhcpVars, recordVars, metricsVars,
    vncVars>>

\* ----------------------------------------------------------------- helpers
Put(f, k, v) == [x \in (DOMAIN f) \cup {k} |-> IF x = k THEN v ELSE f[x]]

RECURSIVE SelectSeqBy(_, _)
\* Vec::retain / iter().filter(): the elements with the given resolved flag kept out
SelectSeqBy(s, keepResolved) ==
    IF s = <<>> THEN <<>>
    ELSE IF Head(s).resolved = keepResolved
         THEN <<Head(s)>> \o SelectSeqBy(Tail(s), keepResolved)
         ELSE SelectSeqBy(Tail(s), keepResolved)

\* ------------------------------------------------------- register_service
\* A variant whose record starts with a failure already counted.
NewHealth_Stale(name, now) ==
    [name |-> name, healthy |-> TRUE, uptime |-> 0, last_check |-> now,
     error_count |-> 1, restart_count |-> 0]

\* The ServiceHealth record register_service creates.
NewHealth(name, now) ==
    [name |-> name, healthy |-> TRUE, uptime |-> 0, last_check |-> now,
     error_count |-> 0, restart_count |-> 0]

\* ------------------------------------------------------ check_all_services
\* Ok branch: the record after a successful check (uptime in units of
\* check_interval).
OnOk(h) ==
    [h EXCEPT !.healthy = TRUE,
              !.error_count = IF h.healthy THEN h.error_count ELSE 0,
              !.uptime = h.uptime + 1]

\* A variant that sends the recovery alert on every successful check.
EmitsRecovered_Always(h) == TRUE

\* Ok branch: the recovery alert is sent only when the record was unhealthy.
EmitsRecovered(h) == ~h.healthy

RecoveredAlert(id, name) ==
    [id |-> id, severity |-> "Info", module |-> name, kind |-> "recovered",
     resolved |-> TRUE]

\* Err branch: the record after a failed check, before the restart decision.
OnErr(h) ==
    [h EXCEPT !.healthy = FALSE, !.error_count = h.error_count + 1]

\* A variant that compares with > instead of >=.
Severity_Strict(h, cfg) ==
    IF h.error_count > cfg.max_failures THEN "Critical" ELSE "Warning"

\* Err branch: the severity, computed from the incremented error_count.
Severity(h, cfg) ==
    IF h.error_count >= cfg.max_failures THEN "Critical" ELSE "Warning"

\* A variant that creates the failure alert already resolved.
FailureAlert_Resolved(id, name, sev) ==
    [id |-> id, severity |-> sev, module |-> name, kind |-> "failed",
     resolved |-> TRUE]

FailureAlert(id, name, sev) ==
    [id |-> id, severity |-> sev, module |-> name, kind |-> "failed",
     resolved |-> FALSE]

\* A variant that compares with > instead of >=.
ShouldRestart_Strict(h, cfg) ==
    h.error_count > cfg.max_failures /\ cfg.auto_restart

\* A variant that restarts whether or not auto_restart is set.
ShouldRestart_Forced(h, cfg) ==
    h.error_count >= cfg.max_failures

\* Err branch: the restart decision, on the incremented error_count.
ShouldRestart(h, cfg) ==
    h.error_count >= cfg.max_failures /\ cfg.auto_restart

\* A variant that forgets to reset error_count.
OnRestartDecided_NoReset(h) ==
    [h EXCEPT !.restart_count = h.restart_count + 1]

\* A variant that marks the record healthy when it resets the count.
OnRestartDecided_Healthy(h) ==
    [h EXCEPT !.healthy = TRUE, !.error_count = 0,
              !.restart_count = h.restart_count + 1]

\* Err branch: the record once a restart has been decided.
OnRestartDecided(h) ==
    [h EXCEPT !.error_count = 0, !.restart_count = h.restart_count + 1]

\* ---------------------------------------------------------------- queries
get_alerts_resolved(r) == SelectSeqBy(alerts, r)
get_alerts_all == alerts
get_health_status == health_status

\* ----------------------------------------------------------------- history
NoHistory == [ok |-> 0, fail |-> 0, skip |-> 0, lost |-> 0]

\* The history of n after one more health_check() call with the given result.
Called(h, n, result, pending) ==
    [h EXCEPT ![n] = [@ EXCEPT ![result] = @ + 1,
                               !.lost = IF pending = n THEN @ + 1 ELSE @]]

\* -------------------------------------------------------------------- Init
Init ==
    /\ config \in [max_failures : 1..MaxThreshold, auto_restart : BOOLEAN]
    /\ services = {}
    /\ health_status = <<>>
    /\ loop = "init"
    /\ todo = {}
    /\ restartFor = "none"
    /\ shutdown_tx = FALSE
    /\ shutdownMsg = FALSE
    /\ alertq = <<>>
    /\ alerts = <<>>
    /\ alertSeq = 0
    /\ regPending = "none"
    /\ regQueued = FALSE
    /\ ticks = 0
    /\ tickSnapshot = {}
    /\ checked = {}
    /\ hist = [n \in Names |-> NoHistory]
    /\ restartCalls = [n \in Names |-> 0]
    /\ restartFailed = FALSE
    /\ regs = 0
    \* TunnelManager::new
    /\ tunnel_shutdown = FALSE
    /\ tunnel_process = "none"
    /\ tunnel_status = [state |-> "Disconnected", error_count |-> 0]
    /\ monitors = <<>>
    /\ tunnelStarted = FALSE
    /\ tunnelCalls = 0
    \* DhcpClient::new
    /\ dhcp_state = "Down"
    /\ current_lease = [call |-> 0, attempt |-> 0]
    /\ retry_count = 0
    /\ dhcp_pc = "idle"
    /\ attempts = [made |-> 0, slept |-> 0, result |-> "none",
                   lease |-> [call |-> 0, attempt |-> 0]]
    /\ leaseCalls = 0
    \* one registered record, as register_service creates it
    /\ status_lock = "free"
    /\ health = [healthy |-> TRUE, error_count |-> 0, restart_count |-> 0]
    /\ pass_pc = "idle"
    /\ committed = health
    /\ observed = [got |-> health, committed |-> health]
    /\ checksDone = 0
    \* Monitor::new: an empty metrics vector
    /\ metrics = <<>>
    /\ snapshots = 0
    /\ last_snapshot = <<>>
    \* VncServer::new
    /\ vnc_children = <<>>
    /\ vnc_process = 0
    /\ vnc_restart_count = 0
    /\ vnc_monitors = <<>>
    /\ vnc_handle = 0
    /\ vnc_call = "idle"
    /\ vncCalls = 0
    /\ vnc_respawns = 0
    /\ vncStopped = FALSE
    \* AppState::new, NetworkManager::new, DiskManager::new
    /\ manager_lock = "free"
    /\ network_ops = [t \in {"main", "supervisor"} |-> [op |-> "none", pc |-> "idle"]]
    /\ network_state = "Down"
    /\ disk_ops = [t \in {"main", "supervisor"} |-> "none"]
    /\ disk_state = "Idle"
    /\ adapterOps = 0

\* ----------------------------------------------------------------- actions
\* register_service, first insert: services.write().await.insert(name, service).
\* The services write lock is free unless a scan holds the read lock.
RegisterServices(n) ==
    /\ regPending = "none"
    /\ regs < MaxRegs
    /\ loop \notin {"scan", "hung"}
    /\ services' = services \cup {n}
    /\ regPending' = n
    /\ regs' = regs + 1
    /\ hist' = [hist EXCEPT ![n] = NoHistory]
    /\ restartCalls' = [restartCalls EXCEPT ![n] = 0]
    /\ UNCHANGED <<restartFailed, regQueued,
                   config, health_status, loop, todo, restartFor,
                   shutdown_tx, shutdownMsg, alertq, alerts, alertSeq, ticks,
                   tickSnapshot, checked>>
    /\ UNCHANGED notMonitor

\* register_service, second insert: health_status.write().await.insert(name, health).
\* The health_status write lock is free unless a scan holds it.
RegisterHealth ==
    /\ regPending /= "none"
    /\ loop \notin {"scan", "hung"}
    /\ health_status' = Put(health_status, regPending, NewHealth(regPending, ticks))
    /\ regPending' = "none"
    /\ regQueued' = FALSE
    /\ UNCHANGED <<restartFailed,
                   config, services, loop, todo, restartFor, shutdown_tx,
                   shutdownMsg, alertq, alerts, alertSeq, ticks, tickSnapshot,
                   checked, hist, restartCalls, regs>>
    /\ UNCHANGED notMonitor

\* start(&mut self): creates the shutdown channel, spawns the check loop and
\* the alert processor.  The exclusive borrow rules out a register_service(&self)
\* in progress.
Start ==
    /\ loop = "init"
    /\ regPending = "none"
    /\ loop' = "idle"
    /\ shutdown_tx' = TRUE
    /\ UNCHANGED <<restartFailed, regQueued,
                   config, services, health_status, todo,
                   restartFor, shutdownMsg, alertq, alerts, alertSeq,
                   regPending, ticks, tickSnapshot, checked, hist,
                   restartCalls, regs>>
    /\ UNCHANGED notMonitor

\* A variant of stop() that sends the signal whether or not it took a sender.
stop_sends_Always(tx) == TRUE

\* stop(): `if let Some(tx) = self.shutdown_tx.take()`, the send is made only
\* when a sender was there.
stop_sends(tx) == tx

\* stop(): shutdown_tx and the shutdown channel after the call.  take() leaves
\* None; the send puts () in the channel, or is an Err, ignored, when the loop
\* has dropped the receiver.
StopResult(tx, msg, lp) ==
    IF stop_sends(tx)
    THEN [tx |-> FALSE, msg |-> (lp /= "exited")]
    ELSE [tx |-> FALSE, msg |-> msg]

\* stop(&mut self): takes shutdown_tx and, if it was Some, sends () on the channel of
\* capacity 1 (the only send ever made on it, so it completes at once).  With
\* shutdown_tx None (before start(), or after an earlier stop()) the call
\* changes nothing.
Stop ==
    /\ regPending = "none"
    /\ shutdown_tx' = StopResult(shutdown_tx, shutdownMsg, loop).tx
    /\ shutdownMsg' = StopResult(shutdown_tx, shutdownMsg, loop).msg
    /\ UNCHANGED <<restartFailed, regQueued,
                   config, services, health_status, loop, todo,
                   restartFor, alertq, alerts, alertSeq, regPending, ticks,
                   tickSnapshot, checked, hist, restartCalls, regs>>
    /\ UNCHANGED notMonitor

\* The select! of the check loop, branch shutdown_rx.recv(): break.
LoopShutdown ==
    /\ loop = "idle"
    /\ shutdownMsg
    /\ loop' = "exited"
    /\ shutdownMsg' = FALSE
    /\ UNCHANGED <<restartFailed, regQueued,
                   config, services, health_status, todo,
                   restartFor, shutdown_tx, alertq, alerts, alertSeq,
                   regPending, ticks, tickSnapshot, checked, hist,
                   restartCalls, regs>>
    /\ UNCHANGED notMonitor

\* The select! of the check loop, branch interval_timer.tick(): the timer is
\* ready (the first tick at once, later ones as time passes or in a burst
\* after a long scan). select! has no `biased;`, so when the shutdown message
\* is waiting as well either ready branch may be taken.  check_all_services
\* then takes services.read(), health_status.write() and config.read(); the
\* lock is handed out in arrival order, so a register_service that has been
\* waiting for health_status since the last scan is served first.
TickStart ==
    /\ loop = "idle"
    /\ ticks < MaxTicks
    /\ ~regQueued
    /\ regQueued' = (regPending /= "none")
    /\ loop' = "scan"
    /\ ticks' = ticks + 1
    /\ todo' = services
    /\ tickSnapshot' = services
    /\ checked' = {}
    /\ restartFailed' = FALSE
    /\ UNCHANGED <<config, services, health_status, restartFor, shutdown_tx,
                   shutdownMsg, alertq, alerts, alertSeq, regPending, hist,
                   restartCalls, regs>>
    /\ UNCHANGED notMonitor

\* One iteration of `for (name, service) in services.iter()` whose
\* health_check() never returns: the loop stays at that await, holding its locks.
CheckHangs(n) ==
    /\ loop = "scan"
    /\ n \in todo
    /\ loop' = "hung"
    /\ checked' = checked \cup {n}
    /\ UNCHANGED hist
    /\ UNCHANGED <<restartFailed, regQueued,
                   config, services, health_status, todo,
                   restartFor, shutdown_tx, shutdownMsg, alertq, alerts,
                   alertSeq, regPending, ticks, tickSnapshot, restartCalls,
                   regs>>
    /\ UNCHANGED notMonitor

\* One iteration whose health_check() returns Ok(()).
CheckOk(n) ==
    /\ loop = "scan"
    /\ n \in todo
    /\ checked' = checked \cup {n}
    /\ hist' = Called(hist, n, "ok", regPending)
    /\ todo' = todo \ {n}
    /\ IF n \in DOMAIN health_status
       THEN LET h == [health_status[n] EXCEPT !.last_check = ticks] IN
            /\ health_status' = [health_status EXCEPT ![n] = OnOk(h)]
            /\ IF EmitsRecovered(h)
               THEN /\ Len(alertq) < AlertChannelCap
                    /\ alertq' = Append(alertq, RecoveredAlert(alertSeq + 1, n))
                    /\ alertSeq' = alertSeq + 1
               ELSE UNCHANGED <<alertq, alertSeq>>
       ELSE UNCHANGED <<health_status, alertq, alertSeq>>
    /\ UNCHANGED <<restartFailed, regQueued,
                   config, services, loop, restartFor, shutdown_tx,
                   shutdownMsg, alerts, regPending, ticks, tickSnapshot,
                   restartCalls, regs>>
    /\ UNCHANGED notMonitor

\* One iteration whose health_check() returns Err(e).
CheckErr(n) ==
    /\ loop = "scan"
    /\ n \in todo
    /\ checked' = checked \cup {n}
    /\ hist' = Called(hist, n, "fail", regPending)
    /\ IF n \in DOMAIN health_status
       THEN LET h == OnErr([health_status[n] EXCEPT !.last_check = ticks]) IN
            /\ Len(alertq) < AlertChannelCap
            /\ alertq' = Append(alertq, FailureAlert(alertSeq + 1, n, Severity(h, config)))
            /\ alertSeq' = alertSeq + 1
            /\ IF ShouldRestart(h, config)
               THEN \* drop(status); drop(services); the rest of the scan is given up
                    /\ health_status' = [health_status EXCEPT ![n] = OnRestartDecided(h)]
                    /\ loop' = "restart"
                    /\ restartFor' = n
                    /\ todo' = todo \ {n}
               ELSE /\ health_status' = [health_status EXCEPT ![n] = h]
                    /\ todo' = todo \ {n}
                    /\ UNCHANGED <<loop, restartFor>>
       ELSE /\ todo' = todo \ {n}
            /\ UNCHANGED <<health_status, alertq, alertSeq, loop, restartFor>>
    /\ UNCHANGED <<restartFailed, regQueued,
                   config, services, shutdown_tx, shutdownMsg,
                   alerts, regPending, ticks, tickSnapshot, restartCalls,
                   regs>>
    /\ UNCHANGED notMonitor

\* The services of the tick whose health_check() the tick did not call.
Skipped == tickSnapshot \ checked

MarkSkipped(h) ==
    [n \in Names |-> IF n \in Skipped THEN [h[n] EXCEPT !.skip = @ + 1] ELSE h[n]]

\* The iteration is exhausted: check_all_services returns, the guards drop.
TickEnd ==
    /\ loop = "scan"
    /\ todo = {}
    /\ loop' = "idle"
    /\ hist' = MarkSkipped(hist)
    /\ UNCHANGED <<restartFailed, regQueued,
                   config, services, health_status, todo,
                   restartFor, shutdown_tx, shutdownMsg, alertq, alerts,
                   alertSeq, regPending, ticks, tickSnapshot, checked,
                   restartCalls, regs>>
    /\ UNCHANGED notMonitor

\* After a restart decision: services.write().await.get_mut(name), then
\* restart(), whose result `ok` changes nothing in the program (an Err is only
\* logged with error!), then
\* `return`: the services the iteration had not reached stay unvisited.
RestartService(ok) ==
    /\ loop = "restart"
    /\ restartCalls' = IF restartFor \in services
                       THEN [restartCalls EXCEPT ![restartFor] = @ + 1]
                       ELSE restartCalls
    /\ loop' = "idle"
    /\ restartFor' = "none"
    /\ todo' = {}
    /\ hist' = MarkSkipped(hist)
    /\ restartFailed' = ~ok
    /\ UNCHANGED <<regQueued, config, services, health_status, shutdown_tx,
                   shutdownMsg, alertq, alerts, alertSeq, regPending, ticks,
                   tickSnapshot, checked, regs>>
    /\ UNCHANGED notMonitor

\* A variant that puts the received alert at the front of the log.
push_Front(log, a) == <<a>> \o log

\* A variant that loses the received alert.
push_Lost(log, a) == log

\* alerts.write().await.push(alert): Vec::push appends at the end.
push(log, a) == Append(log, a)

\* The alert processor: alert_rx.recv() takes the oldest alert of the channel,
\* a log line, then alerts.write().await.push(alert).
AlertProcessor ==
    /\ loop /= "init"
    /\ alertq /= <<>>
    /\ alerts' = push(alerts, Head(alertq))
    /\ alertq' = Tail(alertq)
    /\ UNCHANGED <<restartFailed, regQueued,
                   config, services, health_status, loop, todo,
                   restartFor, shutdown_tx, shutdownMsg, alertSeq, regPending,
                   ticks, tickSnapshot, checked, hist, restartCalls, regs>>
    /\ UNCHANGED notMonitor

\* A variant whose predicate is inverted.
retain_unresolved_Inverted(log) == SelectSeqBy(log, TRUE)

\* alerts.retain(|a| !a.resolved)
retain_unresolved(log) == SelectSeqBy(log, FALSE)

\* clear_resolved_alerts(): alerts.write().await.retain(|a| !a.resolved).
ClearResolvedAlerts ==
    /\ alerts' = retain_unresolved(alerts)
    /\ alerts' /= alerts
    /\ UNCHANGED <<restartFailed, regQueued,
                   config, services, health_status, loop, todo,
                   restartFor, shutdown_tx, shutdownMsg, alertq, alertSeq,
                   regPending, ticks, tickSnapshot, checked, hist,
                   restartCalls, regs>>
    /\ UNCHANGED notMonitor

Next ==
    \/ \E n \in Names : RegisterServices(n)
    \/ RegisterHealth
    \/ Start
    \/ Stop
    \/ LoopShutdown
    \/ TickStart
    \/ \E n \in Names : CheckOk(n)
    \/ \E n \in Names : CheckErr(n)
    \/ \E n \in Names : CheckHangs(n)
    \/ TickEnd
    \/ \E ok \in BOOLEAN : RestartService(ok)
    \/ AlertProcessor
    \/ ClearResolvedAlerts

Spec == Init /\ [][Next]_vars

\* The steps of the spawned check loop.  The runtime keeps polling the task:
\* a step of the loop that stays possible is taken.
LoopStep ==
    \/ TickStart
    \/ \E n \in Names : CheckOk(n) \/ CheckErr(n) \/ CheckHangs(n)
    \/ TickEnd
    \/ \E ok \in BOOLEAN : RestartService(ok)

\* The same program with the scheduling of its tasks stated: the check loop,
\* the alert processor and a caller inside register_service keep running.
FairSpec ==
    Spec /\ WF_vars(LoopStep) /\ WF_vars(AlertProcessor) /\ WF_vars(RegisterHealth)

\* ------------------------------------------ one record, field by field
\* The writes of check_all_services to one ServiceHealth record, one
\* assignment per step, and a status query beside them.

\* check_all_services: `let mut status = health_status.write().await`.
PassBegin ==
    /\ pass_pc = "idle"
    /\ status_lock = "free"
    /\ status_lock' = "write"
    /\ pass_pc' = "locked"
    /\ UNCHANGED <<health, committed, observed, checksDone>>
    /\ UNCHANGED notRecord

\* Err branch, `health.healthy = false`.
ErrSetsUnhealthy ==
    /\ pass_pc = "locked"
    /\ checksDone < MaxChecks
    /\ health' = [health EXCEPT !.healthy = FALSE]
    /\ pass_pc' = "err_healthy_written"
    /\ checksDone' = checksDone + 1
    /\ UNCHANGED <<status_lock, committed, observed>>
    /\ UNCHANGED notRecord

\* Err branch, `health.error_count += 1`, then the restart decision: without a
\* restart the processing of the check ends here.
ErrCounts ==
    /\ pass_pc = "err_healthy_written"
    /\ LET h == [health EXCEPT !.error_count = @ + 1] IN
        /\ health' = h
        /\ IF ShouldRestart(h, config)
           THEN pass_pc' = "err_counted" /\ UNCHANGED committed
           ELSE pass_pc' = "locked" /\ committed' = h
    /\ UNCHANGED <<status_lock, observed, checksDone>>
    /\ UNCHANGED notRecord

\* Err branch with restart, `health.error_count = 0`.
RestartResetsCount ==
    /\ pass_pc = "err_counted"
    /\ health' = [health EXCEPT !.error_count = 0]
    /\ pass_pc' = "count_reset"
    /\ UNCHANGED <<status_lock, committed, observed, checksDone>>
    /\ UNCHANGED notRecord

\* Err branch with restart, `health.restart_count += 1; drop(status)`.
RestartCounts ==
    /\ pass_pc = "count_reset"
    /\ health' = [health EXCEPT !.restart_count = @ + 1]
    /\ committed' = health'
    /\ status_lock' = "free"
    /\ pass_pc' = "idle"
    /\ UNCHANGED <<observed, checksDone>>
    /\ UNCHANGED notRecord

\* Ok branch on a healthy record: no field of the three is written.
OkOnHealthy ==
    /\ pass_pc = "locked"
    /\ checksDone < MaxChecks
    /\ health.healthy
    /\ checksDone' = checksDone + 1
    /\ UNCHANGED <<status_lock, health, pass_pc, committed, observed>>
    /\ UNCHANGED notRecord

\* Ok branch on an unhealthy record, `health.healthy = true`.
OkSetsHealthy ==
    /\ pass_pc = "locked"
    /\ checksDone < MaxChecks
    /\ ~health.healthy
    /\ health' = [health EXCEPT !.healthy = TRUE]
    /\ pass_pc' = "ok_healthy_written"
    /\ checksDone' = checksDone + 1
    /\ UNCHANGED <<status_lock, committed, observed>>
    /\ UNCHANGED notRecord

\* Ok branch on an unhealthy record, `health.error_count = 0`.
OkResetsCount ==
    /\ pass_pc = "ok_healthy_written"
    /\ health' = [health EXCEPT !.error_count = 0]
    /\ committed' = health'
    /\ pass_pc' = "locked"
    /\ UNCHANGED <<status_lock, observed, checksDone>>
    /\ UNCHANGED notRecord

\* The pass returns at the end of the iteration: the write guard drops.
PassEnd ==
    /\ pass_pc = "locked"
    /\ status_lock' = "free"
    /\ pass_pc' = "idle"
    /\ UNCHANGED <<health, committed, observed, checksDone>>
    /\ UNCHANGED notRecord

\* A variant of the read lock that is granted while the writer holds the lock.
read_granted_Always(lock) == TRUE

\* RwLock::read(): granted when no writer holds the lock.
read_granted(lock) == lock /= "write"

\* get_health_status(), and likewise the snapshot of the metrics collector:
\* health_status.read().await, then the records are copied under the guard.
StatusQuery ==
    /\ read_granted(status_lock)
    /\ observed' = [got |-> health, committed |-> committed]
    /\ observed' /= observed
    /\ UNCHANGED <<status_lock, health, pass_pc, committed, checksDone>>
    /\ UNCHANGED notRecord

RecordNext ==
    \/ PassBegin
    \/ ErrSetsUnhealthy
    \/ ErrCounts
    \/ RestartResetsCount
    \/ RestartCounts
    \/ OkOnHealthy
    \/ OkSetsHealthy
    \/ OkResetsCount
    \/ PassEnd
    \/ StatusQuery

RecordSpec == Init /\ [][RecordNext]_vars

\* ------------------------------------------------------- TunnelManager
\* monitor_process: `const MAX_BACKOFF: Duration = Duration::from_secs(60)`.
MAX_BACKOFF == 60
\* monitor_process: `const BACKOFF_MULTIPLIER: u32 = 2`.
BACKOFF_MULTIPLIER == 2
\* monitor_process: `let mut backoff = Duration::from_secs(1)`, and the reset.
BACKOFF_FLOOR == 1

Min(a, b) == IF a <= b THEN a ELSE b

\* A variant of the backoff update without the cap.
NextBackoff_Uncapped(backoff) == backoff * BACKOFF_MULTIPLIER

\* monitor_process: backoff = min(backoff * BACKOFF_MULTIPLIER, MAX_BACKOFF).
NextBackoff(backoff) == Min(backoff * BACKOFF_MULTIPLIER, MAX_BACKOFF)

\* A variant of start() that clears the shutdown flag.
start_shutdown_Cleared(flag) == FALSE

\* start(): the shutdown flag after the call; start() does not write it.
start_shutdown(flag) == flag

\* start() of an enabled, valid configuration, with the result `ok` of
\* spawn_tunnel_process(): Connecting, then either the child is stored, the
\* state is Connected and a monitor_process task is spawned, or error_count is
\* incremented and the state is Error.  The network manager calls start() at
\* startup and after a stop() (its restart), not on a started tunnel.
TunnelStart(ok) ==
    /\ tunnelCalls < MaxTunnelCalls
    /\ ~tunnelStarted
    /\ ~ok => tunnel_status.error_count < MaxTunnelErrors
    /\ tunnelCalls' = tunnelCalls + 1
    /\ tunnel_shutdown' = start_shutdown(tunnel_shutdown)
    /\ IF ok
       THEN /\ tunnel_process' = "alive"
            /\ tunnel_status' = [tunnel_status EXCEPT !.state = "Connected"]
            /\ monitors' = Append(monitors,
                   [pc |-> "top", backoff |-> BACKOFF_FLOOR, fails |-> 0])
            /\ tunnelStarted' = TRUE
       ELSE /\ tunnel_status' = [state |-> "Error",
                                 error_count |-> tunnel_status.error_count + 1]
            /\ UNCHANGED <<tunnel_process, monitors, tunnelStarted>>
    /\ UNCHANGED notTunnel

\* stop(): sets the shutdown flag, takes and kills the child, sets the state
\* to Disconnected.
TunnelStop ==
    /\ tunnelCalls < MaxTunnelCalls
    /\ tunnelCalls' = tunnelCalls + 1
    /\ tunnel_shutdown' = TRUE
    /\ tunnel_process' = "none"
    /\ tunnel_status' = [tunnel_status EXCEPT !.state = "Disconnected"]
    /\ tunnelStarted' = FALSE
    /\ UNCHANGED monitors
    /\ UNCHANGED notTunnel

\* The tunnel process exits on its own.
ProcessExits ==
    /\ tunnel_process = "alive"
    /\ tunnel_process' = "dead"
    /\ UNCHANGED <<tunnel_shutdown, tunnel_status, monitors, tunnelStarted,
                   tunnelCalls>>
    /\ UNCHANGED notTunnel

\* A variant of the loop that breaks whatever the flag is.
should_break_Always(flag) == TRUE

\* monitor_process: `if *self.shutdown.read().await { break; }`.
should_break(flag) == flag

\* monitor_process, top of the loop: the shutdown check, then sleep(5 s).
MonCheckShutdown(i) ==
    /\ i \in DOMAIN monitors
    /\ monitors[i].pc = "top"
    /\ monitors' = [monitors EXCEPT ![i].pc =
                       IF should_break(tunnel_shutdown) THEN "done" ELSE "sleeping"]
    /\ UNCHANGED <<tunnel_shutdown, tunnel_process, tunnel_status,
                   tunnelStarted, tunnelCalls>>
    /\ UNCHANGED notTunnel

\* monitor_process after the sleep of 5 s: try_wait() on the child.  If the
\* process is gone: Reconnecting, error_count += 1, then sleep(backoff).
MonProbe(i) ==
    /\ i \in DOMAIN monitors
    /\ monitors[i].pc = "sleeping"
    /\ IF tunnel_process = "alive"
       THEN /\ monitors' = [monitors EXCEPT ![i].pc = "top"]
            /\ UNCHANGED tunnel_status
       ELSE /\ tunnel_status.error_count < MaxTunnelErrors
            /\ tunnel_status' = [state |-> "Reconnecting",
                                 error_count |-> tunnel_status.error_count + 1]
            /\ monitors' = [monitors EXCEPT ![i].pc = "backoff"]
    /\ UNCHANGED <<tunnel_shutdown, tunnel_process, tunnelStarted, tunnelCalls>>
    /\ UNCHANGED notTunnel

\* monitor_process after sleep(backoff): spawn_tunnel_process() with result
\* `ok`.  Ok: the child is stored, Connected, the backoff is reset.  Err:
\* Error, the backoff is doubled up to the cap.
MonRespawn(i, ok) ==
    /\ i \in DOMAIN monitors
    /\ monitors[i].pc = "backoff"
    /\ IF ok
       THEN /\ tunnel_process' = "alive"
            /\ tunnel_status' = [tunnel_status EXCEPT !.state = "Connected"]
            /\ monitors' = [monitors EXCEPT ![i] =
                   [pc |-> "top", backoff |-> BACKOFF_FLOOR, fails |-> 0]]
       ELSE /\ tunnel_status' = [tunnel_status EXCEPT !.state = "Error"]
            /\ monitors' = [monitors EXCEPT ![i] =
                   [pc |-> "top", backoff |-> NextBackoff(@.backoff),
                    fails |-> @.fails + 1]]
            /\ UNCHANGED tunnel_process
    /\ UNCHANGED <<tunnel_shutdown, tunnelStarted, tunnelCalls>>
    /\ UNCHANGED notTunnel

MonitorStep(i) ==
    \/ MonCheckShutdown(i)
    \/ MonProbe(i)
    \/ \E ok \in BOOLEAN : MonRespawn(i, ok)

TunnelNext ==
    \/ \E ok \in BOOLEAN : TunnelStart(ok)
    \/ TunnelStop
    \/ ProcessExits
    \/ \E i \in 1..MaxTunnelCalls : MonCheckShutdown(i)
    \/ \E i \in 1..MaxTunnelCalls : MonProbe(i)
    \/ \E i \in 1..MaxTunnelCalls : \E ok \in BOOLEAN : MonRespawn(i, ok)

\* The tunnel manager beside a monitor of fixed configuration.
TunnelInit == Init /\ config.max_failures = MaxThreshold /\ config.auto_restart

TunnelSpec == TunnelInit /\ [][TunnelNext]_vars

\* The runtime keeps polling every spawned monitor_process task.
TunnelFairSpec ==
    TunnelSpec /\ \A i \in 1..MaxTunnelCalls : WF_vars(MonitorStep(i))

\* ---------------------------------------------------- metrics collector
\* Metric: name, value and the label service = name of the record.
Metric(name, value, service) ==
    [name |-> name, value |-> value, service |-> service]

\* `if health.healthy { 1.0 } else { 0.0 }`.
healthy_value(healthy) == IF healthy THEN 1 ELSE 0

\* A variant that reports restart_count as the error count.
ServiceMetrics_Swapped(h) ==
    << Metric("service_healthy", healthy_value(h.healthy), h.name),
       Metric("service_uptime", h.uptime, h.name),
       Metric("service_error_count", h.restart_count, h.name),
       Metric("service_restart_count", h.restart_count, h.name) >>

\* The four samples pushed for one record, in the order of the pushes
\* (uptime in the unit of the record's uptime).
ServiceMetrics(h) ==
    << Metric("service_healthy", healthy_value(h.healthy), h.name),
       Metric("service_uptime", h.uptime, h.name),
       Metric("service_error_count", h.error_count, h.name),
       Metric("service_restart_count", h.restart_count, h.name) >>

\* The orders in which a HashMap with these keys may be iterated.
IterationOrders(keys) ==
    {o \in [1..Cardinality(keys) -> keys] :
        \A i, j \in DOMAIN o : o[i] = o[j] => i = j}

RECURSIVE current_metrics(_, _)
\* The vector built by iterating the records in the given order.
current_metrics(status, order) ==
    IF order = <<>> THEN <<>>
    ELSE ServiceMetrics(status[Head(order)]) \o current_metrics(status, Tail(order))

\* One turn of the collector loop spawned by start(): takes
\* health_status.read() (not granted while a scan holds the write guard),
\* builds the samples of every record, then metrics.extend(current_metrics).
CollectMetrics ==
    /\ loop \notin {"init", "scan", "hung"}
    /\ snapshots < MaxSnapshots
    /\ snapshots' = snapshots + 1
    /\ \E order \in IterationOrders(DOMAIN health_status) :
          /\ last_snapshot' = current_metrics(health_status, order)
          /\ metrics' = metrics \o last_snapshot'
    /\ UNCHANGED notMetrics

\* get_prometheus_metrics, the header line: format!("# TYPE {} gauge\n", name).
TypeLine(name) == <<"# TYPE", name, "gauge">>

\* get_prometheus_metrics, the sample line: the name, the labels joined in
\* braces (the one label service="..."), the value.
SampleLine(m) == <<m.name, {<<"service", m.service>>}, m.value>>

RECURSIVE get_prometheus_metrics(_)
\* get_prometheus_metrics: for every stored metric, in order, a header line
\* and a sample line; the output as the sequence of its lines.
get_prometheus_metrics(stored) ==
    IF stored = <<>> THEN <<>>
    ELSE <<TypeLine(Head(stored).name), SampleLine(Head(stored))>>
         \o get_prometheus_metrics(Tail(stored))

MetricsNext == Next \/ CollectMetrics

\* The monitor with its collector, for one configuration.
MetricsInit == Init /\ config.max_failures = MaxThreshold /\ config.auto_restart

MetricsSpec == MetricsInit /\ [][MetricsNext]_vars

\* ----------------------------------------------------------- VncServer
\* `const MAX_RESTARTS: u32 = 5`.
MAX_RESTARTS == 5

\* is_running(): `process` holds a child and try_wait() on it is Ok(None).
is_running == vnc_process /= 0 /\ vnc_children[vnc_process] = "alive"

\* A variant that allows one restart more.
may_restart_Inclusive(prev) == prev <= MAX_RESTARTS

\* monitor(): `if prev < MAX_RESTARTS`.
may_restart(prev) == prev < MAX_RESTARTS

\* start() up to its sleep of 500 ms: Err(AlreadyRunning) when is_running()
\* (nothing changes, no step); otherwise spawn_process() with result `ok`,
\* which stores the child in `process`, or returns its error.
VncStartSpawn(ok) ==
    /\ vnc_call = "idle"
    /\ vncCalls < MaxVncCalls
    /\ ~is_running
    /\ vncCalls' = vncCalls + 1
    /\ vncStopped' = FALSE
    /\ IF ok
       THEN /\ vnc_children' = Append(vnc_children, "alive")
            /\ vnc_process' = Len(vnc_children) + 1
            /\ vnc_call' = "sleep"
       ELSE UNCHANGED <<vnc_children, vnc_process, vnc_call>>
    /\ UNCHANGED <<vnc_restart_count, vnc_monitors, vnc_handle, vnc_respawns>>
    /\ UNCHANGED notVnc

\* start() after the sleep: Err(StartFailed) when the child has exited;
\* otherwise a monitor() task is spawned and its handle stored.
VncStartFinish ==
    /\ vnc_call = "sleep"
    /\ vnc_call' = "idle"
    /\ IF is_running
       THEN /\ vnc_monitors' = Append(vnc_monitors,
                   [pc |-> "take", child |-> 0, aborted |-> FALSE])
            /\ vnc_handle' = Len(vnc_monitors) + 1
       ELSE UNCHANGED <<vnc_monitors, vnc_handle>>
    /\ UNCHANGED <<vnc_children, vnc_process, vnc_restart_count, vncCalls,
                   vnc_respawns, vncStopped>>
    /\ UNCHANGED notVnc

\* An x11vnc process exits on its own.
VncChildExits(c) ==
    /\ c \in DOMAIN vnc_children
    /\ vnc_children[c] = "alive"
    /\ vnc_children' = [vnc_children EXCEPT ![c] = "exited"]
    /\ UNCHANGED <<vnc_process, vnc_restart_count, vnc_monitors, vnc_handle,
                   vnc_call, vncCalls, vnc_respawns, vncStopped>>
    /\ UNCHANGED notVnc

\* monitor(), top of the loop: `self.process.write().await.take()`; break on
\* None, otherwise wait for the taken child on a blocking thread.
VncMonTake(i) ==
    /\ i \in DOMAIN vnc_monitors
    /\ vnc_monitors[i].pc = "take"
    /\ IF vnc_process = 0
       THEN /\ vnc_monitors' = [vnc_monitors EXCEPT ![i].pc = "done"]
            /\ UNCHANGED vnc_process
       ELSE /\ vnc_monitors' = [vnc_monitors EXCEPT ![i].pc = "wait",
                                                    ![i].child = vnc_process]
            /\ vnc_process' = 0
    /\ UNCHANGED <<vnc_children, vnc_restart_count, vnc_handle, vnc_call,
                   vncCalls, vnc_respawns, vncStopped>>
    /\ UNCHANGED notVnc

\* monitor(), child.wait() has returned: restart_count.fetch_add(1), then the
\* bounded-restart test on the previous value.
VncMonCount(i) ==
    /\ i \in DOMAIN vnc_monitors
    /\ vnc_monitors[i].pc = "wait"
    /\ ~vnc_monitors[i].aborted
    /\ vnc_children[vnc_monitors[i].child] /= "alive"
    /\ vnc_restart_count' = vnc_restart_count + 1
    /\ vnc_monitors' = [vnc_monitors EXCEPT ![i].pc =
           IF may_restart(vnc_restart_count) THEN "respawn" ELSE "done"]
    /\ UNCHANGED <<vnc_children, vnc_process, vnc_handle, vnc_call, vncCalls,
                   vnc_respawns, vncStopped>>
    /\ UNCHANGED notVnc

\* monitor(), spawn_process() with result `ok`: the new child is stored in
\* `process` and the loop goes on, or the loop breaks on the error.
VncMonSpawn(i, ok) ==
    /\ i \in DOMAIN vnc_monitors
    /\ vnc_monitors[i].pc = "respawn"
    /\ IF ok
       THEN /\ vnc_children' = Append(vnc_children, "alive")
            /\ vnc_process' = Len(vnc_children) + 1
            /\ vnc_respawns' = vnc_respawns + 1
            /\ vnc_monitors' = [vnc_monitors EXCEPT ![i].pc = "take"]
       ELSE /\ vnc_monitors' = [vnc_monitors EXCEPT ![i].pc = "done"]
            /\ UNCHANGED <<vnc_children, vnc_process, vnc_respawns>>
    /\ UNCHANGED <<vnc_restart_count, vnc_handle, vnc_call, vncCalls, vncStopped>>
    /\ UNCHANGED notVnc

\* A task whose handle was aborted is cancelled when it next yields: at the
\* await of the blocking wait at the latest, possibly at an earlier await.
VncMonCancelled(i) ==
    /\ i \in DOMAIN vnc_monitors
    /\ vnc_monitors[i].aborted
    /\ vnc_monitors[i].pc \in {"take", "wait", "respawn"}
    /\ vnc_monitors' = [vnc_monitors EXCEPT ![i].pc = "cancelled"]
    /\ UNCHANGED <<vnc_children, vnc_process, vnc_restart_count, vnc_handle,
                   vnc_call, vncCalls, vnc_respawns, vncStopped>>
    /\ UNCHANGED notVnc

\* stop(): takes the child out of `process` and kills it if there is one,
\* takes the monitor handle and aborts the task if there is one, returns Ok.
VncStop ==
    /\ vnc_call = "idle"
    /\ vncCalls < MaxVncCalls
    /\ vncCalls' = vncCalls + 1
    /\ vnc_process' = 0
    /\ vnc_children' =
          IF vnc_process /= 0 /\ vnc_children[vnc_process] = "alive"
          THEN [vnc_children EXCEPT ![vnc_process] = "killed"]
          ELSE vnc_children
    /\ vnc_monitors' =
          IF vnc_handle /= 0
          THEN [vnc_monitors EXCEPT ![vnc_handle].aborted = TRUE]
          ELSE vnc_monitors
    /\ vnc_handle' = 0
    /\ vncStopped' = TRUE
    /\ UNCHANGED <<vnc_restart_count, vnc_call, vnc_respawns>>
    /\ UNCHANGED notVnc

\* The children and monitor tasks that can exist within the bounds.
MaxVncChildren == MaxVncCalls + MAX_RESTARTS + 1

VncNext ==
    \/ \E ok \in BOOLEAN : VncStartSpawn(ok)
    \/ VncStartFinish
    \/ \E c \in 1..MaxVncChildren : VncChildExits(c)
    \/ \E i \in 1..MaxVncCalls : VncMonTake(i)
    \/ \E i \in 1..MaxVncCalls : VncMonCount(i)
    \/ \E i \in 1..MaxVncCalls : \E ok \in BOOLEAN : VncMonSpawn(i, ok)
    \/ \E i \in 1..MaxVncCalls : VncMonCancelled(i)
    \/ VncStop

\* The VNC server beside a monitor of fixed configuration.
VncInit == Init /\ config.max_failures = MaxThreshold /\ config.auto_restart

VncSpec == VncInit /\ [][VncNext]_vars

\* ------------------------------------------------- managers and adapters
\* The tasks that call lifecycle operations: main (startup and shutdown) and
\* the check loop of the Monitor (the adapters' restart()).
Tasks == {"main", "supervisor"}

\* A variant in which the write guard is granted whoever holds the lock.
write_granted_Always(lock) == TRUE

\* RwLock::write().await returns when no guard is held.
write_granted(lock) == lock = "free"

\* `network_manager.write().await` followed by the first statement of the
\* operation: start() sets Configuring; stop() and the adapter's restart()
\* begin with the stop of the tunnel and DHCP managers.
NetworkBegin(t, op) ==
    /\ adapterOps < MaxAdapterOps
    /\ network_ops[t].pc = "idle"
    /\ write_granted(manager_lock)
    /\ manager_lock' = t
    /\ adapterOps' = adapterOps + 1
    /\ network_ops' = [network_ops EXCEPT ![t] =
           [op |-> op, pc |-> IF op = "start" THEN "starting" ELSE "stopping"]]
    /\ network_state' = IF op = "start" THEN "Configuring" ELSE network_state
    /\ UNCHANGED <<disk_ops, disk_state>>
    /\ UNCHANGED notAdapter

\* NetworkManager::stop ends: state Down.  A stop() then drops the guard; a
\* restart() sleeps 500 ms holding it.
NetworkStopped(t) ==
    /\ network_ops[t].pc = "stopping"
    /\ network_state' = "Down"
    /\ IF network_ops[t].op = "stop"
       THEN /\ network_ops' = [network_ops EXCEPT ![t] = [op |-> "none", pc |-> "idle"]]
            /\ manager_lock' = "free"
       ELSE /\ network_ops' = [network_ops EXCEPT ![t].pc = "sleeping"]
            /\ UNCHANGED manager_lock
    /\ UNCHANGED <<disk_ops, disk_state, adapterOps>>
    /\ UNCHANGED notAdapter

\* The adapter's restart() after its sleep: NetworkManager::start begins.
NetworkRestarting(t) ==
    /\ network_ops[t].pc = "sleeping"
    /\ network_ops' = [network_ops EXCEPT ![t].pc = "starting"]
    /\ network_state' = "Configuring"
    /\ UNCHANGED <<manager_lock, disk_ops, disk_state, adapterOps>>
    /\ UNCHANGED notAdapter

\* NetworkManager::start ends with the result `ok` of configure_network():
\* Up or Error; the guard is dropped.
NetworkStarted(t, ok) ==
    /\ network_ops[t].pc = "starting"
    /\ network_state' = IF ok THEN "Up" ELSE "Error"
    /\ network_ops' = [network_ops EXCEPT ![t] = [op |-> "none", pc |-> "idle"]]
    /\ manager_lock' = "free"
    /\ UNCHANGED <<disk_ops, disk_state, adapterOps>>
    /\ UNCHANGED notAdapter

\* The DiskManagerState an operation sets while it runs.
DiskStateOf(op) == IF op = "partition" THEN "Partitioning" ELSE "Formatting"

\* partition_disk / format_partition on the shared Arc<DiskManager>, first
\* statement: set_state(Partitioning) or set_state(Formatting).  &self and no
\* lock around the operation.
DiskBegin(t, op) ==
    /\ adapterOps < MaxAdapterOps
    /\ disk_ops[t] = "none"
    /\ adapterOps' = adapterOps + 1
    /\ disk_ops' = [disk_ops EXCEPT ![t] = op]
    /\ disk_state' = DiskStateOf(op)
    /\ UNCHANGED <<manager_lock, network_ops, network_state>>
    /\ UNCHANGED notAdapter

\* partition_disk / format_partition, the work is done: set_state(Idle).
DiskEnd(t) ==
    /\ disk_ops[t] /= "none"
    /\ disk_ops' = [disk_ops EXCEPT ![t] = "none"]
    /\ disk_state' = "Idle"
    /\ UNCHANGED <<manager_lock, network_ops, network_state, adapterOps>>
    /\ UNCHANGED notAdapter

AdapterNext ==
    \/ \E t \in Tasks : \E op \in {"start", "stop", "restart"} : NetworkBegin(t, op)
    \/ \E t \in Tasks : NetworkStopped(t)
    \/ \E t \in Tasks : NetworkRestarting(t)
    \/ \E t \in Tasks : \E ok \in BOOLEAN : NetworkStarted(t, ok)
    \/ \E t \in Tasks : \E op \in {"partition", "format"} : DiskBegin(t, op)
    \/ \E t \in Tasks : DiskEnd(t)

\* The managers beside a monitor of fixed configuration.
AdapterInit == Init /\ config.max_failures = MaxThreshold /\ config.auto_restart

AdapterSpec == AdapterInit /\ [][AdapterNext]_vars

\* ---------------------------------------------------------- DhcpClient
\* DhcpClient::new: `max_retries: 5`.
max_retries == 5

\* current_lease: None.
NoLease == [call |-> 0, attempt |-> 0]

\* A variant that counts a failed attempt twice.
record_failure_Twice(count) == count + 2

\* request_lease, Err branch: `self.retry_count += 1`.
record_failure(count) == count + 1

\* A variant that keeps the count of failures after a success.
record_success_Kept(count) == count

\* request_lease, Ok branch: `self.retry_count = 0`.
record_success(count) == 0

\* request_lease, entry: Requesting, retry_count = 0.  &mut self: one call at
\* a time.
RequestLease ==
    /\ dhcp_pc = "idle"
    /\ leaseCalls < MaxLeaseCalls
    /\ leaseCalls' = leaseCalls + 1
    /\ dhcp_state' = "Requesting"
    /\ retry_count' = 0
    /\ attempts' = [made |-> 0, slept |-> 0, result |-> "pending",
                    lease |-> NoLease]
    /\ dhcp_pc' = "loop"
    /\ UNCHANGED current_lease
    /\ UNCHANGED notDhcp

\* request_lease, one turn of `while self.retry_count < self.max_retries`
\* with the result `ok` of attempt_dhcp_request().  Ok: the lease is stored,
\* Bound, retry_count = 0, return Ok.  Err: retry_count += 1; at max_retries
\* Error and return Err, otherwise sleep 2^retry_count seconds.  When the
\* loop condition is false: Error and return Err.
LeaseAttempt(ok) ==
    /\ dhcp_pc = "loop"
    /\ IF retry_count < max_retries
       THEN IF ok
            THEN LET lease == [call |-> leaseCalls, attempt |-> attempts.made + 1]
                 IN  /\ current_lease' = lease
                     /\ attempts' = [attempts EXCEPT !.made = @ + 1,
                                                     !.result = "Ok",
                                                     !.lease = lease]
                 /\ dhcp_state' = "Bound"
                 /\ retry_count' = record_success(retry_count)
                 /\ dhcp_pc' = "idle"
            ELSE /\ retry_count' = record_failure(retry_count)
                 /\ IF retry_count' >= max_retries
                    THEN /\ dhcp_state' = "Error"
                         /\ attempts' = [attempts EXCEPT !.made = @ + 1,
                                                         !.result = "Err"]
                         /\ dhcp_pc' = "idle"
                    ELSE /\ attempts' = [attempts EXCEPT !.made = @ + 1]
                         /\ dhcp_pc' = "sleep"
                         /\ UNCHANGED dhcp_state
                 /\ UNCHANGED current_lease
       ELSE /\ dhcp_state' = "Error"
            /\ attempts' = [attempts EXCEPT !.result = "Err"]
            /\ dhcp_pc' = "idle"
            /\ UNCHANGED <<current_lease, retry_count>>
    /\ UNCHANGED leaseCalls
    /\ UNCHANGED notDhcp

\* request_lease, `time::sleep(backoff).await` with backoff = 2^retry_count s.
LeaseBackoff ==
    /\ dhcp_pc = "sleep"
    /\ attempts' = [attempts EXCEPT !.slept = @ + 2 ^ retry_count]
    /\ dhcp_pc' = "loop"
    /\ UNCHANGED <<dhcp_state, current_lease, retry_count, leaseCalls>>
    /\ UNCHANGED notDhcp

\* release_lease with a lease: the lease is dropped, Down.
ReleaseLease ==
    /\ dhcp_pc = "idle"
    /\ current_lease /= NoLease
    /\ current_lease' = NoLease
    /\ dhcp_state' = "Down"
    /\ UNCHANGED <<retry_count, dhcp_pc, attempts, leaseCalls>>
    /\ UNCHANGED notDhcp

DhcpNext ==
    \/ RequestLease
    \/ \E ok \in BOOLEAN : LeaseAttempt(ok)
    \/ LeaseBackoff
    \/ ReleaseLease

\* The DHCP client beside a monitor of fixed configuration.
DhcpInit == Init /\ config.max_failures = MaxThreshold /\ config.auto_restart

DhcpSpec == DhcpInit /\ [][DhcpNext]_vars

\* The caller of request_lease keeps running: attempts and sleeps end.
DhcpFairSpec ==
    DhcpSpec /\ WF_vars(\E ok \in BOOLEAN : LeaseAttempt(ok)) /\ WF_vars(LeaseBackoff)

\* ------------------------------------------------------------ step shapes
\* The step called health_check() of n and got Ok / Err.
CheckedOkStep(n) == hist'[n].ok = hist[n].ok + 1
CheckedErrStep(n) == hist'[n].fail = hist[n].fail + 1

\* The step created exactly one alert and sent it on the channel.
PublishedOne == alertSeq' = alertSeq + 1 /\ Len(alertq') = Len(alertq) + 1
Published == alertq'[Len(alertq')]

\* The step decided to restart n (the loop leaves the scan for the restart).
RestartDecidedStep(n) == loop = "scan" /\ loop' = "restart" /\ restartFor' = n

\* The step is the second insert of a register_service(n).
RegisterHealthStep(n) == regPending = n /\ regPending' = "none"

\* The step called restart() of some service.
RestartCalledStep == \E n \in Names : restartCalls'[n] = restartCalls[n] + 1

\* A stop() that found shutdown_tx and sent the signal has returned.
StopReturned == loop /= "init" /\ ~shutdown_tx

AllAlerts == alerts \o alertq

AlertsOf(log, n, sev) ==
    {i \in 1..Len(log) : log[i].module = n /\ log[i].severity = sev}

AlertsFrom(log, n) == {i \in 1..Len(log) : log[i].module = n}

\* ------------------------------------------------------------------ claims
\* C1: when a tick of the check loop has ended, health_check() has been
\* called in it for every service that was registered when it began, also
\* for those after a service whose failure triggered a restart.
C1_FullScanEveryTick ==
    (loop = "idle" /\ ticks > 0) => tickSnapshot \subseteq checked

\* C2: a restart() decided during a tick is called only once the health-check
\* pass of the tick has been through all the services of the tick.
C2_RestartAfterScan ==
    [][RestartCalledStep => tickSnapshot \subseteq checked]_vars

\* C3: with max_failures = 3 and auto_restart, a service whose health_check
\* failed on three consecutive ticks (its first three) has had exactly one
\* restart() call, and its error_count is 0 and its restart_count 1.
C3_ThreeFailuresOneRestart ==
    \A n \in Names :
        ( /\ config.max_failures = 3
          /\ config.auto_restart
          /\ hist[n].fail = 3 /\ hist[n].ok = 0 /\ hist[n].skip = 0
          /\ loop = "idle" )
        => /\ n \in DOMAIN health_status
           /\ restartCalls[n] = 1
           /\ health_status[n].error_count = 0
           /\ health_status[n].restart_count = 1

\* The end-to-end scenario: "net" and "remote" were registered before the
\* first tick, every check of "net" succeeded and every check of "remote"
\* failed, max_failures is 3, auto_restart is on and three ticks have run.
C4_Scenario ==
    /\ config.max_failures = 3
    /\ config.auto_restart
    /\ ticks = 3
    /\ loop = "idle"
    /\ DOMAIN health_status = {"net", "remote"}
    /\ hist["remote"] = [ok |-> 0, fail |-> 3, skip |-> 0, lost |-> 0]
    /\ hist["net"].fail = 0 /\ hist["net"].lost = 0
    /\ hist["net"].ok + hist["net"].skip = 3

C4_RestartCounts ==
    /\ get_health_status["remote"].restart_count = 1
    /\ get_health_status["net"].restart_count = 0

C4_UnresolvedAlerts ==
    /\ Cardinality(AlertsOf(get_alerts_resolved(FALSE), "remote", "Critical")) = 1
    /\ AlertsFrom(get_alerts_resolved(FALSE), "net") = {}

\* C4 as stated: in the end-to-end scenario, after 3 ticks remote has
\* restart_count 1, net has restart_count 0, and get_alerts(Some(false)) holds
\* exactly one Critical alert from remote and no alert from net.
C4_EndToEnd_AsStated ==
    C4_Scenario => C4_RestartCounts /\ C4_UnresolvedAlerts

\* C4 as amended: in the end-to-end scenario the restart counts are 1 and 0
\* after 3 ticks; get_alerts(Some(false)) never holds an alert from net nor more
\* than one Critical alert from remote, and it holds exactly one Critical alert
\* from remote once the alert processor has emptied the channel.
C4_EndToEnd ==
    C4_Scenario =>
        /\ C4_RestartCounts
        /\ AlertsFrom(get_alerts_resolved(FALSE), "net") = {}
        /\ Cardinality(AlertsOf(get_alerts_resolved(FALSE), "remote", "Critical")) <= 1
        /\ Cardinality(AlertsOf(AllAlerts, "remote", "Critical")) = 1
        /\ alertq = <<>> => C4_UnresolvedAlerts

C4_Witness == C4_Scenario /\ alertq = <<>> /\ hist["net"].skip = 1

\* C5: a service whose health_check() is still to be called in a tick has it
\* called in that same tick, whatever the health_check() of another service
\* does (fails, or never returns).
C5_Isolation ==
    \A n \in Names : \A k \in 1..MaxTicks :
        (ticks = k /\ loop = "scan" /\ n \in todo) ~> (ticks = k /\ n \in checked)

C7_BelowThreshold ==
    config.auto_restart =>
        \A n \in DOMAIN health_status :
            health_status[n].error_count < config.max_failures

C7_Witness ==
    /\ config.auto_restart
    /\ \E n \in DOMAIN health_status :
        /\ health_status[n].restart_count >= 1
        /\ health_status[n].error_count = config.max_failures - 1
        /\ health_status[n].error_count >= 1

\* C8: a check sends the "recovered" Info alert of a service exactly when it
\* succeeds and the service's record was unhealthy before it; the record is
\* healthy after every successful check, so the next success sends none.
C8_RecoveredEdgeTriggered ==
    [][\A n \in Names :
         /\ ( PublishedOne /\ Published.module = n /\ Published.kind = "recovered" )
            <=> ( /\ CheckedOkStep(n)
                  /\ n \in DOMAIN health_status
                  /\ ~health_status[n].healthy )
         /\ ( PublishedOne /\ Published.module = n /\ Published.kind = "recovered" )
            => ( Published.severity = "Info" /\ Published.resolved )
         /\ ( CheckedOkStep(n) /\ n \in DOMAIN health_status )
            => health_status'[n].healthy
    ]_vars

C8_Witness ==
    \E n \in Names :
        /\ hist[n] = [ok |-> 2, fail |-> 1, skip |-> 0, lost |-> 0]
        /\ n \in DOMAIN health_status
        /\ health_status[n].healthy
        /\ health_status[n].uptime = 2
        /\ Cardinality({i \in 1..Len(AllAlerts) :
               AllAlerts[i].module = n /\ AllAlerts[i].kind = "recovered"}) = 1

\* C9: every failing check sends exactly one failure alert, Critical if the
\* incremented error_count is >= max_failures and Warning otherwise.
C9_FailureAlertEveryFailingCheck ==
    [][\A n \in Names :
         CheckedErrStep(n) =>
            /\ PublishedOne
            /\ Published.module = n
            /\ Published.kind = "failed"
            /\ n \in DOMAIN health_status
            /\ Published.severity =
                 IF health_status[n].error_count + 1 >= config.max_failures
                 THEN "Critical" ELSE "Warning"
    ]_vars

\* C10: once stop() has sent the shutdown signal and returned, the check loop
\* begins no new tick.
C10_NoTickAfterStop ==
    [][StopReturned => ticks' = ticks]_vars

\* The state of the shutdown side after one stop() and after two.
StopOnce == StopResult(shutdown_tx, shutdownMsg, loop)
StopTwice == StopResult(StopOnce.tx, StopOnce.msg, loop)

\* C11: stop() is idempotent and never blocks: whenever it would send, the
\* shutdown channel has room; a second call leaves what the first call left;
\* and a call made with no sender (before start(), or after a stop()) changes
\* nothing.
C11_StopIdempotent ==
    /\ shutdown_tx => ~shutdownMsg
    /\ StopTwice = StopOnce
    /\ ~shutdown_tx => StopOnce = [tx |-> shutdown_tx, msg |-> shutdownMsg]

C11_Witness == StopReturned /\ loop = "exited" /\ ticks >= 1

\* The step is a restart() call that returned Err.
RestartFailedStep == loop = "restart" /\ loop' = "idle" /\ restartFailed'

\* C12: the step in which a threshold-triggered restart() returns Err sends a
\* Critical alert about the failed restart of that service.
C12_RestartFailureAlerted ==
    [][RestartFailedStep =>
          /\ PublishedOne
          /\ Published.severity = "Critical"
          /\ Published.module = restartFor
          /\ Published.kind = "restart_failed"
    ]_vars

\* C13: after a restart() that returned Err the check loop is still running:
\* unless stop() is called, it performs the next tick and in it calls
\* health_check() of every registered service.
C13_LoopSurvivesRestartFailure ==
    \A k \in 1..(MaxTicks - 1) :
        (restartFailed /\ loop = "idle" /\ ticks = k /\ shutdown_tx)
        ~> ( \/ (ticks = k + 1 /\ loop = "idle" /\ tickSnapshot \subseteq checked)
             \/ ~shutdown_tx )

\* C14: sending an alert never makes the check loop wait: while a scan has a
\* service left to visit, the iteration that handles its health_check() result,
\* Ok or Err, can be taken at once, also when the alert channel is full.
C14_PublishNeverStalls ==
    \A n \in Names :
        (loop = "scan" /\ n \in todo) =>
            (ENABLED CheckOk(n)) /\ (ENABLED CheckErr(n))

\* C15: the alert log is in publish order: of two alerts in the log, the one
\* the check loop created and sent earlier (the smaller id) comes first.
C15_LogInPublishOrder ==
    \A i, j \in 1..Len(alerts) : i < j => alerts[i].id < alerts[j].id

C15_Witness == Len(alerts) >= 3 /\ alerts[1].id < alerts[3].id

\* At most one alert is created per health_check() call.
MaxAlerts == MaxTicks * Cardinality(Names)

InQueue(id) == \E i \in 1..Len(alertq) : alertq[i].id = id
InLog(id) == \E i \in 1..Len(alerts) : alerts[i].id = id

\* C16: every alert sent on the channel is eventually appended to the log by
\* the alert processor, and exactly once: no alert is at two places of the
\* log or both in the log and still in the channel.
C16_EveryAlertLoggedOnce ==
    /\ [](\A i, j \in 1..Len(AllAlerts) :
             i /= j => AllAlerts[i].id /= AllAlerts[j].id)
    /\ \A id \in 1..MaxAlerts : InQueue(id) ~> InLog(id)

C16_Witness == alertSeq >= 2 /\ alertq = <<>> /\ Len(alerts) = alertSeq

\* The places of the log that hold an unresolved alert, and the place the
\* i-th alert of the log has among them.
Unresolved(log) == {i \in 1..Len(log) : ~log[i].resolved}
Rank(log, i) == Cardinality({j \in Unresolved(log) : j <= i})

\* The step is a clear_resolved_alerts() that changed the log (the only step
\* that changes the log and leaves the channel alone).
ClearStep == alertq' = alertq /\ alerts' /= alerts

\* C17: whatever was published and cleared before, a clear_resolved_alerts()
\* leaves in the log exactly the alerts with resolved = FALSE that were in it,
\* in the order they had.
C17_ClearRemovesExactlyResolved ==
    [][ClearStep =>
          /\ Len(alerts') = Cardinality(Unresolved(alerts))
          /\ \A i \in Unresolved(alerts) : alerts'[Rank(alerts, i)] = alerts[i]
    ]_vars

C17_Witness ==
    /\ Len(alerts) = 2
    /\ alertq = <<>>
    /\ ~alerts[1].resolved /\ ~alerts[2].resolved
    /\ alerts[2].id > alerts[1].id + 1

\* C18: a recovery alert is created with resolved = TRUE and a failure alert
\* with resolved = FALSE; an alert that stays in the channel or the log keeps
\* all its fields; and a failure alert never leaves them, so that
\* clear_resolved_alerts() never removes one.
C18_AlertsImmutable ==
    [][ /\ \A j \in 1..Len(AllAlerts') :
              /\ AllAlerts'[j].kind = "recovered" => AllAlerts'[j].resolved
              /\ AllAlerts'[j].kind = "failed" => ~AllAlerts'[j].resolved
        /\ \A i \in 1..Len(AllAlerts) : \A j \in 1..Len(AllAlerts') :
              AllAlerts[i].id = AllAlerts'[j].id => AllAlerts[i] = AllAlerts'[j]
        /\ \A i \in 1..Len(AllAlerts) :
              AllAlerts[i].kind = "failed" =>
                  \E j \in 1..Len(AllAlerts') : AllAlerts'[j] = AllAlerts[i]
    ]_vars

C18_Witness ==
    /\ alertSeq = 2
    /\ alertq = <<>>
    /\ Len(alerts) = 1
    /\ alerts[1].kind = "failed" /\ alerts[1].id = 1

\* C19: the restart_count that get_health_status() shows for a service never
\* decreases, whatever step is taken: a check, a restart, or a register_service
\* under the same name.
C19_RestartCountMonotonic ==
    [][\A n \in DOMAIN get_health_status :
          /\ n \in DOMAIN health_status'
          /\ health_status'[n].restart_count >= get_health_status[n].restart_count
    ]_vars

\* The record is as register_service initialises it.
Fresh(n, h) ==
    /\ h.name = n
    /\ h.healthy
    /\ h.error_count = 0
    /\ h.restart_count = 0
    /\ h.uptime = 0

\* C20: when register_service(n) has made its two inserts, the service is in
\* the registry and its record, keyed by its name, is a fresh one, also when the
\* name had a service and a record before; the records of the other services
\* are untouched and there is one record per registered name.
C20_RegisterCreatesFreshRecord ==
    [][\A n \in Names :
          RegisterHealthStep(n) =>
             /\ n \in services'
             /\ n \in DOMAIN health_status'
             /\ Fresh(n, health_status'[n])
             /\ \A m \in DOMAIN health_status \ {n} :
                   health_status'[m] = health_status[m]
             /\ DOMAIN health_status' = services'
             /\ Cardinality(DOMAIN health_status') = Cardinality(services')
    ]_vars

C20_Witness ==
    \E n \in Names :
        /\ regs = 2
        /\ services = {n}
        /\ regPending = "none"
        /\ alertSeq >= 1
        /\ n \in DOMAIN health_status
        /\ Fresh(n, health_status[n])

\* C21: the uptime of a service's record, in units of check_interval, is the
\* number of successful checks of the service so far: every successful check
\* adds one interval, failing checks and restarts add nothing.
C21_UptimeCountsSuccesses ==
    \A n \in DOMAIN health_status :
        regPending /= n => health_status[n].uptime = hist[n].ok

\* C22: a status query never returns a partially updated record: the healthy,
\* error_count and restart_count it returns are those the record had when the
\* processing of the last check before the query ended.
C22_QueriesSeeWholeUpdates ==
    observed.got = observed.committed

C22_Witness ==
    /\ observed.got.restart_count >= 1
    /\ observed.got.error_count = 0
    /\ ~observed.got.healthy
    /\ health /= observed.got
    /\ pass_pc = "err_healthy_written"

\* C23: a tick evaluates the registry as it was when the tick began (the
\* registry does not change during the scan), and a service registered once
\* the loop is running is evaluated in the next tick, the result going into
\* its health record (unless stop() is called or a health_check() never
\* returns).
C23_RegistrySnapshotPerTick ==
    /\ [](/\ checked \cup todo \subseteq tickSnapshot
          /\ loop \in {"scan", "hung"} => tickSnapshot = services)
    /\ \A n \in Names : \A k \in 1..(MaxTicks - 1) :
          (regPending = n /\ ticks = k /\ shutdown_tx)
          ~> ( \/ /\ ticks = k + 1
                  /\ hist[n].ok + hist[n].fail >= 1
                  /\ hist[n].lost = 0
               \/ ~shutdown_tx
               \/ loop = "hung" )

\* The delays the claim gives for failures 1..7, 60 afterwards.
ExpectedDelays == <<1, 2, 4, 8, 16, 32, 60>>
DelayForFailure(k) == IF k <= Len(ExpectedDelays) THEN ExpectedDelays[k] ELSE 60

\* C24: in every monitor_process loop the backoff to be slept before the next
\* respawn is the one for its number of consecutive failed respawns plus one:
\* 1, 2, 4, 8, 16, 32, 60 for failures 1..7 and 60 afterwards (so it never
\* decreases across failures nor exceeds the cap), and 1 again after a
\* successful respawn.
C24_BackoffSchedule ==
    \A i \in DOMAIN monitors :
        monitors[i].backoff = DelayForFailure(monitors[i].fails + 1)

C24_Witness ==
    /\ tunnelCalls = 1
    /\ Len(monitors) = 1
    /\ monitors[1] = [pc |-> "top", backoff |-> 60, fails |-> 7]
    /\ tunnel_status.error_count = 8

\* The step is a successful respawn by a monitor_process loop.
RespawnOkStep ==
    \E i \in DOMAIN monitors :
        /\ monitors[i].pc = "backoff"
        /\ monitors'[i].pc = "top"
        /\ tunnel_status'.state = "Connected"

\* The step is a failed respawn by a monitor_process loop.
RespawnErrStep ==
    \E i \in DOMAIN monitors :
        /\ monitors[i].pc = "backoff"
        /\ monitors'[i].pc = "top"
        /\ tunnel_status'.state = "Error"

\* The step is request_lease returning Ok / returning Err.
LeaseOkStep == attempts.result = "pending" /\ attempts'.result = "Ok"
LeaseErrStep == attempts.result = "pending" /\ attempts'.result = "Err"

\* After a successful lease acquisition the DHCP client's retry_count is 0.
LeaseSuccessResets == [][LeaseOkStep => retry_count' = 0]_vars

\* C25: a recorded success resets the attempt counter of its subsystem: after
\* a successful tunnel respawn the tunnel's error_count is 0, and after a
\* successful DHCP lease acquisition the client's retry_count is 0, whatever
\* number of failures preceded it.
C25_SuccessResetsAttempts ==
    [][ /\ RespawnOkStep => tunnel_status'.error_count = 0
        /\ LeaseOkStep => retry_count' = 0 ]_vars

\* The backoff seconds slept in a request_lease whose attempts all fail:
\* 2^1 + 2^2 + 2^3 + 2^4, nothing after the last attempt.
ExhaustedSleep == 30

\* C26: request_lease terminates for every sequence of attempt outcomes; it
\* never makes more than max_retries attempts, and when it returns an error
\* it has made exactly max_retries attempts, the client is in state Error and
\* the call is over (no further attempt is made in it).
C26_BoundedLeaseRetry ==
    /\ [](attempts.made <= max_retries)
    /\ [][LeaseErrStep =>
             /\ attempts'.made = max_retries
             /\ dhcp_state' = "Error"
             /\ dhcp_pc' = "idle"]_vars
    /\ [][dhcp_pc = "idle" /\ dhcp_pc' = "idle" => attempts' = attempts]_vars
    /\ (dhcp_pc /= "idle") ~> (dhcp_pc = "idle")

C26_Witness ==
    /\ dhcp_pc = "idle"
    /\ dhcp_state = "Error"
    /\ retry_count = max_retries
    /\ attempts = [made |-> max_retries, slept |-> ExhaustedSleep,
                   result |-> "Err", lease |-> NoLease]

\* The i-th monitor_process task exists and is at `pc`.
MonitorAt(i, pc) == i \in DOMAIN monitors /\ monitors[i].pc = pc

\* C27: the monitor_process loop never gives up because of failures: a loop
\* ends only at its shutdown check with the shutdown flag set; after every
\* sleep(backoff) it attempts the respawn and goes back to the top of the
\* loop, and from the top it goes on to its next probe unless it is shut down.
C27_MonitorNeverGivesUp ==
    /\ [][\A i \in DOMAIN monitors :
             (monitors[i].pc /= "done" /\ monitors'[i].pc = "done")
             => (monitors[i].pc = "top" /\ tunnel_shutdown)]_vars
    /\ [][RespawnErrStep => \A i \in DOMAIN monitors :
             monitors[i].pc /= "done" => monitors'[i].pc /= "done"]_vars
    /\ \A i \in 1..MaxTunnelCalls :
          /\ MonitorAt(i, "backoff") ~> MonitorAt(i, "top")
          /\ MonitorAt(i, "top") ~> (MonitorAt(i, "sleeping") \/ tunnel_shutdown)

\* A loop that is still probing after seven consecutive failed respawns.
C27_Witness ==
    /\ ~tunnel_shutdown
    /\ \E i \in DOMAIN monitors :
          monitors[i].pc = "sleeping" /\ monitors[i].fails = 7

\* stop() has returned and nothing has been started since.
TunnelStopped ==
    /\ tunnel_shutdown
    /\ ~tunnelStarted
    /\ tunnel_process = "none"
    /\ tunnel_status.state = "Disconnected"

\* The step is taken by a monitor_process loop.
MonitorLoopStep == monitors' /= monitors /\ tunnelCalls' = tunnelCalls

\* C28: once stop() has set the shutdown flag and returned, a step of a
\* monitor_process loop spawns no tunnel process and leaves the tunnel state
\* Disconnected, and a loop that was sleeping leaves the loop instead of
\* respawning.
C28_NoRespawnAfterStop ==
    [][TunnelStopped /\ MonitorLoopStep =>
          /\ tunnel_process' = "none"
          /\ tunnel_status'.state = "Disconnected"
          /\ \A i \in DOMAIN monitors : monitors'[i].pc /= "backoff"]_vars

\* C29: after any number of stop()-then-start() cycles a successfully started
\* tunnel is supervised: some monitor_process loop is still running.
C29_RestartedTunnelSupervised ==
    tunnelStarted => \E i \in DOMAIN monitors : monitors[i].pc /= "done"

\* The step is one turn of the metrics collector.
SnapshotStep == snapshots' = snapshots + 1

\* The samples with the given name and service label among the appended ones.
Appended(old, new, name, n) ==
    {i \in (Len(old) + 1)..Len(new) : new[i].name = name /\ new[i].service = n}

\* C30: a metrics snapshot leaves the stored samples in place and appends,
\* for every ServiceHealth record present, exactly one sample of each of the
\* four names labelled with the service: service_healthy (1 if healthy else
\* 0), service_uptime, service_error_count (the record's consecutive
\* failures at that moment) and service_restart_count; nothing else is
\* appended.
C30_SnapshotAppendsFourPerRecord ==
    [][SnapshotStep =>
          /\ Len(metrics') = Len(metrics) + 4 * Cardinality(DOMAIN health_status)
          /\ SubSeq(metrics', 1, Len(metrics)) = metrics
          /\ \A n \in DOMAIN health_status :
                LET h == health_status[n]
                    Value(name) ==
                        {metrics'[i].value : i \in Appended(metrics, metrics', name, n)}
                    Count(name) ==
                        Cardinality(Appended(metrics, metrics', name, n))
                IN  /\ Count("service_healthy") = 1
                    /\ Value("service_healthy") = {IF h.healthy THEN 1 ELSE 0}
                    /\ Count("service_uptime") = 1
                    /\ Value("service_uptime") = {h.uptime}
                    /\ Count("service_error_count") = 1
                    /\ Value("service_error_count") = {h.error_count}
                    /\ Count("service_restart_count") = 1
                    /\ Value("service_restart_count") = {h.restart_count}]_vars

\* A second snapshot of two records, one of them unhealthy with a counted
\* failure, was appended after a first one of a single record.
C30_Witness ==
    /\ snapshots = 2
    /\ Len(metrics) = 12
    /\ \E i \in 5..12 : metrics[i] = Metric("service_error_count", 1, "net")
    /\ \E i \in 5..12 : metrics[i] = Metric("service_healthy", 0, "net")
    /\ \E i \in 5..12 : metrics[i].service = "remote"

\* C37: with auto_restart off no restart() is called and restart_count is 0
\* in every record; every failing check of a service that has a record adds
\* exactly 1 to its error_count, sending a Critical alert whenever the new
\* count is at or past max_failures, and the count of a record goes down only
\* in a successful check, which sets it to 0.
C37_NoRestartWhenDisabled ==
    /\ [](~config.auto_restart =>
             \A n \in Names :
                /\ restartCalls[n] = 0
                /\ n \in DOMAIN health_status => health_status[n].restart_count = 0)
    /\ [][~config.auto_restart =>
             \A n \in DOMAIN health_status :
                (n \in DOMAIN health_status' /\ ~RegisterHealthStep(n)) =>
                   LET c == health_status[n].error_count
                       d == health_status'[n].error_count
                   IN  /\ CheckedErrStep(n) => d = c + 1
                       /\ (CheckedErrStep(n) /\ d >= config.max_failures) =>
                             /\ PublishedOne
                             /\ Published.module = n
                             /\ Published.severity = "Critical"
                       /\ d < c => (CheckedOkStep(n) /\ d = 0)
       ]_vars

\* A record two failures past a threshold of 1, each failure alerted Critical.
C37_Witness ==
    /\ ~config.auto_restart
    /\ config.max_failures = 1
    /\ \E n \in DOMAIN health_status :
          /\ health_status[n].error_count = 3
          /\ health_status[n].restart_count = 0
          /\ restartCalls[n] = 0
          /\ Cardinality(AlertsOf(AllAlerts, n, "Critical")) = 3

\* C39: a healthy record has error_count 0 in every state; the failing check
\* that triggers a restart leaves the record unhealthy, and a record of the
\* check loop turns from unhealthy to healthy only in a successful check of
\* its service, which sends the recovered alert.
C39_HealthyMeansNoFailures ==
    /\ [](\A n \in DOMAIN health_status :
             health_status[n].healthy => health_status[n].error_count = 0)
    /\ [][\A n \in Names :
             RestartDecidedStep(n) =>
                (n \in DOMAIN health_status' /\ ~health_status'[n].healthy)]_vars
    /\ [][\A n \in DOMAIN health_status :
             ( /\ n \in DOMAIN health_status'
               /\ ~RegisterHealthStep(n)
               /\ ~health_status[n].healthy
               /\ health_status'[n].healthy )
             => ( /\ CheckedOkStep(n)
                  /\ PublishedOne
                  /\ Published.module = n
                  /\ Published.kind = "recovered" )]_vars

\* A restarted service whose record is still unhealthy, the count reset.
C39_Witness ==
    /\ loop = "idle"
    /\ \E n \in DOMAIN health_status :
          /\ restartCalls[n] >= 1
          /\ health_status[n].restart_count >= 1
          /\ ~health_status[n].healthy
          /\ health_status[n].error_count = 0

\* C40: while a tick scans the registry the key sets of the service registry
\* and of the health-status map are equal: every service the scan iterates
\* has a ServiceHealth record.
C40_EveryServiceHasRecord ==
    loop \in {"scan", "hung"} => services = DOMAIN health_status

\* C38: request_lease stops at the first successful attempt: when it returns
\* Ok, the successful attempt is its last one and every attempt before it
\* failed (so k attempts were made if the k-th is the first to succeed, with
\* k <= max_retries), the lease of that attempt is returned and stored, the
\* state is Bound and retry_count is 0; no attempt follows in that call.
C38_StopsAtFirstSuccess ==
    /\ [][LeaseOkStep =>
             /\ attempts'.made = attempts.made + 1
             /\ attempts.made = retry_count
             /\ attempts'.made <= max_retries
             /\ attempts'.lease = [call |-> leaseCalls, attempt |-> attempts'.made]
             /\ current_lease' = attempts'.lease
             /\ dhcp_state' = "Bound"
             /\ retry_count' = 0
             /\ dhcp_pc' = "idle"]_vars
    /\ [][attempts.result = "Ok" /\ attempts'.result = "Ok" =>
             attempts' = attempts]_vars

\* The third attempt of the first call was the first to succeed.
C38_Witness ==
    /\ dhcp_pc = "idle"
    /\ dhcp_state = "Bound"
    /\ retry_count = 0
    /\ current_lease = [call |-> 1, attempt |-> 3]
    /\ attempts = [made |-> 3, slept |-> 6, result |-> "Ok",
                   lease |-> current_lease]

\* The exposition text of the stored metrics and, parsed back, the positions
\* of its sample lines (the lines that are not comments).
RenderedText == get_prometheus_metrics(metrics)
SampleLines == {i \in DOMAIN RenderedText : RenderedText[i][1] /= "# TYPE"}

\* The (name, labels, value) triples of the most recent snapshot.
LatestTriples ==
    {SampleLine(last_snapshot[i]) : i \in DOMAIN last_snapshot}

\* C31: the rendered text, parsed back, is exactly the set of triples of the
\* most recent snapshot: each of them is on exactly one sample line, there is
\* no other sample line, and with nothing stored the text is empty.
C31_RenderRoundTrip ==
    /\ \A t \in LatestTriples :
          Cardinality({i \in SampleLines : RenderedText[i] = t}) = 1
    /\ \A i \in SampleLines : RenderedText[i] \in LatestTriples
    /\ metrics = <<>> => RenderedText = <<>>

\* The metric names that occur in the rendered text.
RenderedNames == {RenderedText[i][1] : i \in SampleLines}

\* C32: the rendered text has exactly one `# TYPE name gauge` line for each
\* metric name that has samples in it.
C32_OneTypeHeaderPerName ==
    \A name \in RenderedNames :
        Cardinality({i \in DOMAIN RenderedText : RenderedText[i] = TypeLine(name)}) = 1

\* The step is a monitor() task learning that the child it waited for is gone.
VncCrashSeenStep(i) ==
    /\ vnc_monitors[i].pc = "wait"
    /\ vnc_monitors'[i].pc \in {"respawn", "done"}

\* C34: the monitor() tasks of a VncServer respawn x11vnc at most
\* MAX_RESTARTS times over the life of the server; once MAX_RESTARTS respawns
\* have been made, a monitor that sees a further crash ends and no process is
\* spawned by it.
C34_BoundedVncRestarts ==
    /\ [](vnc_respawns <= MAX_RESTARTS)
    /\ [][\A i \in DOMAIN vnc_monitors :
             (VncCrashSeenStep(i) /\ vnc_respawns = MAX_RESTARTS) =>
                /\ vnc_monitors'[i].pc = "done"
                /\ vnc_children' = vnc_children]_vars
    /\ [][\A i \in DOMAIN vnc_monitors :
             (vnc_monitors[i].pc = "done" /\ vnc_respawns = MAX_RESTARTS) =>
                vnc_monitors'[i].pc = "done"]_vars

\* Five respawns were made, the sixth crash was counted and ended the monitor.
C34_Witness ==
    /\ vnc_respawns = MAX_RESTARTS
    /\ vnc_restart_count = MAX_RESTARTS + 1
    /\ vnc_process = 0
    /\ \E i \in DOMAIN vnc_monitors : vnc_monitors[i].pc = "done"
    /\ \A c \in DOMAIN vnc_children : vnc_children[c] = "exited"

\* Some x11vnc process started by this server is alive.
VncChildAlive == \E c \in DOMAIN vnc_children : vnc_children[c] = "alive"

\* C35: is_running() is true exactly when an x11vnc child started by this
\* server is alive, in particular while the child runs and a monitor task
\* waits for it.
C35_IsRunningIffChildAlive == is_running <=> VncChildAlive

\* The step is a stop() returning Ok.
VncStopOkStep == ~vncStopped /\ vncStopped'

\* C36: when stop() returns Ok no x11vnc child started by this server is
\* alive, and from then on, until start() is called again, no monitor task
\* spawns a process.
C36_StopKillsAndStopsMonitor ==
    /\ [][VncStopOkStep => ~VncChildAlive']_vars
    /\ [][(vncStopped /\ vncStopped') =>
             Len(vnc_children') = Len(vnc_children)]_vars

\* The tasks that have an operation of the network / disk manager in flight.
NetworkInFlight == {t \in Tasks : network_ops[t].pc /= "idle"}
DiskInFlight == {t \in Tasks : disk_ops[t] /= "none"}

\* C33: at most one lifecycle operation is in flight on a manager at any
\* time, so the state an operation has set is not overwritten by another
\* operation while it runs.
C33_OneTransitionInFlight ==
    /\ Cardinality(NetworkInFlight) <= 1
    /\ Cardinality(DiskInFlight) <= 1
    /\ \A t \in DiskInFlight : disk_state = DiskStateOf(disk_ops[t])

\* The network manager alone keeps to it: its callers hold the write guard.
NetworkOneInFlight ==
    /\ Cardinality(NetworkInFlight) <= 1
    /\ \A t \in NetworkInFlight : manager_lock = t

====
